---- MODULE Spec2Model ----
(***************************************************************************)
(* Model of the MELCloud device wrapper (MelCloudDevice) of                *)
(* custom_components/melcloudwitherv/__init__.py: the availability flag,   *)
(* the throttled refresh (async_update) and the write pass-through         *)
(* (async_set), with the accessor's update()/set() calls awaited, so that  *)
(* calls on one wrapper may overlap.                                       *)
(*                                                                         *)
(* Time is counted in minutes.  An accessor call is split at its await:    *)
(* async_update / async_set run up to the await, update_done / set_done    *)
(* resume the coroutine with the accessor's outcome.                       *)
(***************************************************************************)
EXTENDS Integers, Sequences, FiniteSets

(* ------------------------------ bounds -------------------------------- *)
\* the clock runs from 0 to MaxTime minutes
MaxTime == 6
\* set() calls awaited at once on one wrapper
MaxInFlight == 1
\* update() invocations recorded per accessor, and awaited at once on it
MaxUpdateCalls == 3

\* units reported by one device
MaxUnits == 4
\* devices of one class in the inventory
MaxDevices == 2

(* ------------------------- program constants -------------------------- *)
\* MIN_TIME_BETWEEN_UPDATES = timedelta(minutes=5)
MIN_TIME_BETWEEN_UPDATES == 5

\* the wrappers of the fleet, one per device
Wrappers == {"ata", "erv"}

\* throttle[1] before the first admitted call
None == -1

\* HTTP statuses a ClientResponseError may carry
Statuses == {400, 401, 500}

\* what an awaited accessor call may do: return, or raise one of the
\* exception classes the wrapper distinguishes (TimeoutError stands for
\* every class no except clause names)
Outcomes ==
    { [exc |-> e, status |-> 0] :
        e \in {"none", "ClientConnectionError", "AttributeError", "TimeoutError"} }
    \cup { [exc |-> "ClientResponseError", status |-> s] : s \in Statuses }

NoOutcome == [exc |-> "pending", status |-> 0]

\* the property dicts the entities write: {"power": True}, {"power": False},
\* {"fan_speed": option}, {"ventilation_mode": option}
Properties ==
    { [key |-> "power", value |-> "True"], [key |-> "power", value |-> "False"],
      [key |-> "fan_speed", value |-> "1"], [key |-> "ventilation_mode", value |-> "auto"] }

\* model strings a unit may report ("" when it reports none)
Models == {"", "A", "B"}

\* device.units: None (present = FALSE) or a list of unit dicts
NoUnits == [present |-> FALSE, list |-> <<>>]

UnitLists ==
    UNION { [1..n -> [model : Models]] : n \in 0..MaxUnits }

UnitInputs ==
    {NoUnits} \cup { [present |-> TRUE, list |-> l] : l \in UnitLists }

\* DeviceInfo.model: None (present = FALSE) or a string
NoModel == [present |-> FALSE, str |-> ""]

\* device_info has not been read yet
NotRead == [present |-> FALSE, str |-> "not read"]

\* asyncio.timeout(10) around get_devices, in seconds
FETCH_TIMEOUT == 10

\* the device classes of the inventory (DEVICE_TYPE_ATA, _ATW, _ERV)
Classes == {"ata", "atw", "erv"}

\* every all_devices dict get_devices may return: some classes, each with a
\* list of devices
Inventories ==
    UNION { [cs -> UNION { [1..n -> Wrappers] : n \in 0..MaxDevices }] : cs \in SUBSET Classes }

\* the inventory behind the two wrappers of Wrappers: get_devices reports
\* every class, the class without devices with an empty list
TwoDevices == [c \in Classes |-> IF c = "atw" THEN <<>> ELSE <<c>>]

\* how a pip job run by hass.async_add_executor_job(subprocess.check_call, ...)
\* may end: it returns, pip exits non-zero (CalledProcessError), or it raises
\* another class (OSError stands for every class the except does not name)
ExecutorResults == {"ok", "CalledProcessError", "OSError"}

\* how `from pymelcloud import Device, get_devices` may end after the reinstall
ImportResults == {"ok", "ImportError"}

\* what the awaited async_forward_entry_setups or async_unload_platforms may
\* raise (ValueError stands for every class)
PlatformErrors == {"ValueError"}

\* what the awaited get_devices may raise
FetchErrors ==
    { [exc |-> e, status |-> 0] :
        e \in {"ClientConnectionError", "TimeoutError", "KeyError"} }
    \cup { [exc |-> "ClientResponseError", status |-> s] : s \in Statuses }

\* hass.data[DOMAIN] without the entry
NoFleet == [stored |-> FALSE, fleet |-> <<>>]

VARIABLES
    available,      \* available[w]: MelCloudDevice._available
    throttle,       \* throttle[w]: time of the last admitted async_update, or None
    now,            \* utcnow(), in minutes
    pending,        \* pending[w][op]: accessor calls of kind op being awaited
    updateCalls,    \* updateCalls[w]: times at which device.update() was invoked
    lastDetermined, \* lastDetermined[w]: value the contract assigns to the last determining call
    lastEv,         \* what the most recent call or resumption did, as its caller sees it
    units,          \* device.units of the device whose device_info is read
    model,          \* the model of the DeviceInfo last returned by device_info
    inventory,      \* the all_devices dict get_devices returns when it returns
    fetch,          \* the awaited get_devices: none, running, returned, raised, cancelled
    fetchTime,      \* seconds spent inside asyncio.timeout(10)
    fetchError,     \* what get_devices raised, when it raised
    setupResult,    \* where async_setup_entry is, or how it ended: True or the exception it raised
    hassData,       \* hass.data[DOMAIN][entry.entry_id]
    forwarded,      \* the platforms of the entry are set up
    constructed,    \* MelCloudDevice objects constructed
    migration,      \* where _async_migrate_pymelcloud_package is, or how it ended
    unloadResult,   \* where async_unload_entry is, or how it ended
    direct,         \* direct[w]: device.set() calls awaited by the entities of wrapper w
    markedBy        \* markedBy[w]: the call that last assigned False to available[w]

\* the state of the wrappers and their accessors
deviceVars == <<available, throttle, now, pending, updateCalls, lastDetermined, lastEv>>

\* the state of a device_info read
infoVars == <<units, model>>

\* the state of the entry setup
setupVars == <<inventory, fetch, fetchTime, fetchError, setupResult, hassData,
               forwarded, constructed, migration, unloadResult>>

\* the state of the switch and select entities
entityVars == <<direct>>

\* history of the availability flag
watchVars == <<markedBy>>

vars == <<available, throttle, now, pending, updateCalls, lastDetermined, lastEv,
          units, model,
          inventory, fetch, fetchTime, fetchError, setupResult, hassData,
          forwarded, constructed, migration, unloadResult, direct, markedBy>>

(* --------------------------- pure helpers ----------------------------- *)

\* async_update without the Throttle decorator: every call is admitted
ThrottleAdmits_unthrottled(last, t) ==
    TRUE

\* what a caller of async_update(**kwargs) may pass as no_throttle: nothing
\* (FALSE, the default Throttle pops) or no_throttle=True
CallerKwargs == BOOLEAN

\* the wrapper that is followed through time; wrappers share no state, so the
\* other wrapper of the fleet is left idle where one wrapper is followed
Polled == {"erv"}

\* Throttle.wrapper: never called before, or utcnow() - throttle[1] > min_time
ThrottleAdmits(last, t) ==
    \/ last = None
    \/ t - last > MIN_TIME_BETWEEN_UPDATES

\* async_update with the 401 test dropped: every rejection is absorbed
async_update_body_no401(outcome, avail) ==
    IF outcome.exc = "none"
    THEN [available |-> TRUE, raised |-> FALSE]
    ELSE IF outcome.exc = "ClientConnectionError"
    THEN [available |-> FALSE, raised |-> FALSE]
    ELSE IF outcome.exc = "ClientResponseError"
    THEN [available |-> TRUE, raised |-> FALSE]
    ELSE IF outcome.exc = "AttributeError"
    THEN [available |-> FALSE, raised |-> FALSE]
    ELSE [available |-> avail, raised |-> TRUE]

\* async_update whose connectivity clause only logs and keeps the flag
async_update_body_connKeeps(outcome, avail) ==
    IF outcome.exc = "none"
    THEN [available |-> TRUE, raised |-> FALSE]
    ELSE IF outcome.exc = "ClientConnectionError"
    THEN [available |-> avail, raised |-> FALSE]
    ELSE IF outcome.exc = "ClientResponseError"
    THEN IF outcome.status = 401
         THEN [available |-> avail, raised |-> TRUE]
         ELSE [available |-> TRUE, raised |-> FALSE]
    ELSE IF outcome.exc = "AttributeError"
    THEN [available |-> FALSE, raised |-> FALSE]
    ELSE [available |-> avail, raised |-> TRUE]

\* async_update whose rejection clause re-raises every status from 401 up
async_update_body_raiseFrom401(outcome, avail) ==
    IF outcome.exc = "none"
    THEN [available |-> TRUE, raised |-> FALSE]
    ELSE IF outcome.exc = "ClientConnectionError"
    THEN [available |-> FALSE, raised |-> FALSE]
    ELSE IF outcome.exc = "ClientResponseError"
    THEN IF outcome.status >= 401
         THEN [available |-> avail, raised |-> TRUE]
         ELSE [available |-> TRUE, raised |-> FALSE]
    ELSE IF outcome.exc = "AttributeError"
    THEN [available |-> FALSE, raised |-> FALSE]
    ELSE [available |-> avail, raised |-> TRUE]

\* async_update without the AttributeError clause: the error propagates
async_update_body_noAttr(outcome, avail) ==
    IF outcome.exc = "none"
    THEN [available |-> TRUE, raised |-> FALSE]
    ELSE IF outcome.exc = "ClientConnectionError"
    THEN [available |-> FALSE, raised |-> FALSE]
    ELSE IF outcome.exc = "ClientResponseError"
    THEN IF outcome.status = 401
         THEN [available |-> avail, raised |-> TRUE]
         ELSE [available |-> TRUE, raised |-> FALSE]
    ELSE [available |-> avail, raised |-> TRUE]

\* async_update that does not set the flag after a successful update()
async_update_body_okKeeps(outcome, avail) ==
    IF outcome.exc = "none"
    THEN [available |-> avail, raised |-> FALSE]
    ELSE IF outcome.exc = "ClientConnectionError"
    THEN [available |-> FALSE, raised |-> FALSE]
    ELSE IF outcome.exc = "ClientResponseError"
    THEN IF outcome.status = 401
         THEN [available |-> avail, raised |-> TRUE]
         ELSE [available |-> TRUE, raised |-> FALSE]
    ELSE IF outcome.exc = "AttributeError"
    THEN [available |-> FALSE, raised |-> FALSE]
    ELSE [available |-> avail, raised |-> TRUE]

\* async_update whose AttributeError clause marks the device available
async_update_body_attrAvailable(outcome, avail) ==
    IF outcome.exc = "none"
    THEN [available |-> TRUE, raised |-> FALSE]
    ELSE IF outcome.exc = "ClientConnectionError"
    THEN [available |-> FALSE, raised |-> FALSE]
    ELSE IF outcome.exc = "ClientResponseError"
    THEN IF outcome.status = 401
         THEN [available |-> avail, raised |-> TRUE]
         ELSE [available |-> TRUE, raised |-> FALSE]
    ELSE IF outcome.exc = "AttributeError"
    THEN [available |-> TRUE, raised |-> FALSE]
    ELSE [available |-> avail, raised |-> TRUE]

\* try/except of MelCloudDevice.async_update, applied to the outcome of
\* `await self.device.update()`; avail is _available before the resumption
async_update_body(outcome, avail) ==
    IF outcome.exc = "none"
    THEN [available |-> TRUE, raised |-> FALSE]
    ELSE IF outcome.exc = "ClientConnectionError"
    THEN [available |-> FALSE, raised |-> FALSE]
    ELSE IF outcome.exc = "ClientResponseError"
    THEN IF outcome.status = 401
         THEN [available |-> avail, raised |-> TRUE]
         ELSE [available |-> TRUE, raised |-> FALSE]
    ELSE IF outcome.exc = "AttributeError"
    THEN [available |-> FALSE, raised |-> FALSE]
    ELSE [available |-> avail, raised |-> TRUE]

\* async_set without its except clause: a connectivity error propagates
async_set_body_noExcept(outcome, avail) ==
    IF outcome.exc = "none"
    THEN [available |-> TRUE, raised |-> FALSE]
    ELSE [available |-> avail, raised |-> TRUE]

\* async_set with the except clauses of async_update
async_set_body_likeUpdate(outcome, avail) ==
    IF outcome.exc = "none"
    THEN [available |-> TRUE, raised |-> FALSE]
    ELSE IF outcome.exc = "ClientConnectionError"
    THEN [available |-> FALSE, raised |-> FALSE]
    ELSE IF outcome.exc = "ClientResponseError"
    THEN IF outcome.status = 401
         THEN [available |-> avail, raised |-> TRUE]
         ELSE [available |-> TRUE, raised |-> FALSE]
    ELSE IF outcome.exc = "AttributeError"
    THEN [available |-> FALSE, raised |-> FALSE]
    ELSE [available |-> avail, raised |-> TRUE]

\* try/except of MelCloudDevice.async_set, applied to the outcome of
\* `await self.device.set(properties)`
async_set_body(outcome, avail) ==
    IF outcome.exc = "none"
    THEN [available |-> TRUE, raised |-> FALSE]
    ELSE IF outcome.exc = "ClientConnectionError"
    THEN [available |-> FALSE, raised |-> FALSE]
    ELSE [available |-> avail, raised |-> TRUE]

\* the caller-visible record of one step of a call
Event(op, phase, w, outcome, before, raised) ==
    [op |-> op, phase |-> phase, w |-> w, outcome |-> outcome,
     before |-> before, raised |-> raised]

\* the caller-visible record of a write running to its await: given is the
\* dict the caller handed over, passed the dict device.set() received
SetCall(w, before, given, passed) ==
    [op |-> "set", phase |-> "invoked", w |-> w, outcome |-> NoOutcome,
     before |-> before, raised |-> FALSE, given |-> given, passed |-> passed]

\* the caller-visible record of a refresh call: no_throttle is what the
\* caller passed, phase whether update() was invoked or the call suppressed
UpdateCall(phase, w, before, no_throttle) ==
    [op |-> "update", phase |-> phase, w |-> w, outcome |-> NoOutcome,
     before |-> before, raised |-> FALSE, no_throttle |-> no_throttle]

\* the value a finished call determines for `available` according to the
\* documented contract: "true", "false", or "keep" when it determines none
ContractValue(op, outcome) ==
    IF outcome.exc = "none" THEN "true"
    ELSE IF outcome.exc = "ClientConnectionError" THEN "false"
    ELSE IF op = "update" /\ outcome.exc = "ClientResponseError" /\ outcome.status # 401
    THEN "true"
    ELSE IF op = "update" /\ outcome.exc = "AttributeError" THEN "false"
    ELSE "keep"

\* history variable: the value determined by the most recent determining call
Determined(w, op, outcome) ==
    IF ContractValue(op, outcome) = "keep" THEN lastDetermined
    ELSE [lastDetermined EXCEPT ![w] = (ContractValue(op, outcome) = "true")]

\* str.join: the strings of strs with sep between neighbours
RECURSIVE Join(_, _)
Join(sep, strs) ==
    IF strs = <<>> THEN ""
    ELSE IF Len(strs) = 1 THEN strs[1]
    ELSE strs[1] \o sep \o Join(sep, Tail(strs))

\* device_info without the `if x["model"]` filter: every unit is joined
DeviceInfoModel_unfiltered(unit_infos) ==
    IF unit_infos.present
    THEN [present |-> TRUE,
          str |-> Join(", ", [i \in 1..Len(unit_infos.list) |-> unit_infos.list[i].model])]
    ELSE NoModel

\* MelCloudDevice.device_info: model stays None when device.units is None,
\* else ", ".join([x["model"] for x in unit_infos if x["model"]])
DeviceInfoModel(unit_infos) ==
    IF unit_infos.present
    THEN LET kept == SelectSeq(unit_infos.list, LAMBDA x : x.model # "")
         IN [present |-> TRUE,
             str |-> Join(", ", [i \in 1..Len(kept) |-> kept[i].model])]
    ELSE NoModel

\* MelCloudDevice.__init__: the wrapper of one device
MelCloudDevice(device) ==
    [device |-> device, name |-> device, available |-> TRUE]

\* mel_devices_setup that skips the classes without devices
WrapDevices_skipEmpty(all_devices) ==
    [device_type \in {c \in DOMAIN all_devices : all_devices[c] # <<>>} |->
        [i \in 1..Len(all_devices[device_type]) |->
            MelCloudDevice(all_devices[device_type][i])]]

\* mel_devices_setup, the wrapping loop: one list of wrappers per class,
\* [MelCloudDevice(device) for device in devices]
WrapDevices(all_devices) ==
    [device_type \in DOMAIN all_devices |->
        [i \in 1..Len(all_devices[device_type]) |->
            MelCloudDevice(all_devices[device_type][i])]]

\* devices in an inventory
RECURSIVE DeviceCount(_)
DeviceCount(all_devices) ==
    IF DOMAIN all_devices = {} THEN 0
    ELSE LET c == CHOOSE x \in DOMAIN all_devices : TRUE
         IN Len(all_devices[c])
            + DeviceCount([x \in DOMAIN all_devices \ {c} |-> all_devices[x]])

\* async_setup_entry that tests the rejection for 403 instead of 401
SetupFailure_403(ex) ==
    IF ex.exc = "ClientResponseError"
    THEN IF ex.status = 403 THEN "ConfigEntryAuthFailed" ELSE "ConfigEntryNotReady"
    ELSE IF ex.exc \in {"TimeoutError", "ClientConnectionError"}
    THEN "ConfigEntryNotReady"
    ELSE ex.exc

\* the except clauses of async_setup_entry: the exception the caller sees
\* for the exception ex raised inside mel_devices_setup
SetupFailure(ex) ==
    IF ex.exc = "ClientResponseError"
    THEN IF ex.status = 401 THEN "ConfigEntryAuthFailed" ELSE "ConfigEntryNotReady"
    ELSE IF ex.exc \in {"TimeoutError", "ClientConnectionError"}
    THEN "ConfigEntryNotReady"
    ELSE ex.exc

(* ------------------------------ Init ---------------------------------- *)

InitDevices ==
    /\ available = [w \in Wrappers |-> TRUE]
    /\ throttle = [w \in Wrappers |-> None]
    /\ now = 0
    /\ pending = [w \in Wrappers |-> [op \in {"update", "set"} |-> 0]]
    /\ updateCalls = [w \in Wrappers |-> <<>>]
    /\ lastDetermined = [w \in Wrappers |-> TRUE]
    /\ lastEv = Event("none", "none", "ata", NoOutcome, TRUE, FALSE)

\* no device_info read is modelled
InfoIdle ==
    /\ units = NoUnits
    /\ model = NotRead

\* the entry was set up from the inventory behind Wrappers
Booted ==
    /\ inventory = TwoDevices
    /\ fetch = "returned"
    /\ fetchTime = 0
    /\ fetchError = NoOutcome
    /\ setupResult = "True"
    /\ hassData = [stored |-> TRUE, fleet |-> WrapDevices(TwoDevices)]
    /\ forwarded = TRUE
    /\ constructed = DeviceCount(TwoDevices)
    /\ migration = "absent"
    /\ unloadResult = "not called"

\* no entity is writing, no call has marked a wrapper unavailable
EntitiesIdle ==
    /\ direct = [w \in Wrappers |-> 0]
    /\ markedBy = [w \in Wrappers |-> "none"]

Init ==
    /\ InitDevices
    /\ InfoIdle
    /\ Booted
    /\ EntitiesIdle

(* ----------------------------- actions -------------------------------- *)

\* the clock advances
Tick ==
    /\ now < MaxTime
    /\ now' = now + 1
    /\ UNCHANGED <<available, throttle, pending, updateCalls, lastDetermined, lastEv>>

\* async_update whose throttle state lives on the decorated function instead
\* of the instance: an admitted call stamps every wrapper
async_update_sharedThrottle(w, no_throttle) ==
    IF no_throttle \/ ThrottleAdmits(throttle[w], now)
    THEN /\ pending[w]["update"] < MaxUpdateCalls
         /\ Len(updateCalls[w]) < MaxUpdateCalls
         /\ throttle' = [v \in Wrappers |-> now]
         /\ pending' = [pending EXCEPT ![w]["update"] = @ + 1]
         /\ updateCalls' = [updateCalls EXCEPT ![w] = Append(@, now)]
         /\ lastEv' = UpdateCall("invoked", w, available[w], no_throttle)
         /\ UNCHANGED <<available, now, lastDetermined>>
    ELSE /\ lastEv' = UpdateCall("suppressed", w, available[w], no_throttle)
         /\ UNCHANGED <<available, throttle, now, pending, updateCalls, lastDetermined>>

\* async_update whose throttled calls are queued behind the running one
\* instead of being answered by the stand-in coroutine
async_update_queued(w, no_throttle) ==
    IF no_throttle \/ ThrottleAdmits(throttle[w], now)
    THEN /\ pending[w]["update"] < MaxUpdateCalls
         /\ Len(updateCalls[w]) < MaxUpdateCalls
         /\ throttle' = [throttle EXCEPT ![w] = now]
         /\ pending' = [pending EXCEPT ![w]["update"] = @ + 1]
         /\ updateCalls' = [updateCalls EXCEPT ![w] = Append(@, now)]
         /\ lastEv' = UpdateCall("invoked", w, available[w], no_throttle)
         /\ UNCHANGED <<available, now, lastDetermined>>
    ELSE /\ pending[w]["update"] < MaxUpdateCalls
         /\ pending' = [pending EXCEPT ![w]["update"] = @ + 1]
         /\ lastEv' = UpdateCall("suppressed", w, available[w], no_throttle)
         /\ UNCHANGED <<available, throttle, now, updateCalls, lastDetermined>>

\* a caller invokes wrapper.async_update(**kwargs): the Throttle wrapper
\* either returns the stand-in coroutine (suppressed) or starts the method,
\* which runs to `await self.device.update()`.  no_throttle=True among the
\* kwargs forces the call past the interval; an admitted call is started
\* whether or not an earlier one is still awaited
async_update(w, no_throttle) ==
    IF no_throttle \/ ThrottleAdmits(throttle[w], now)
    THEN /\ pending[w]["update"] < MaxUpdateCalls
         /\ Len(updateCalls[w]) < MaxUpdateCalls
         /\ throttle' = [throttle EXCEPT ![w] = now]
         /\ pending' = [pending EXCEPT ![w]["update"] = @ + 1]
         /\ updateCalls' = [updateCalls EXCEPT ![w] = Append(@, now)]
         /\ lastEv' = UpdateCall("invoked", w, available[w], no_throttle)
         /\ UNCHANGED <<available, now, lastDetermined>>
    ELSE /\ lastEv' = UpdateCall("suppressed", w, available[w], no_throttle)
         /\ UNCHANGED <<available, throttle, now, pending, updateCalls, lastDetermined>>

\* update_done of a wrapper whose unavailability sticks: once the flag is
\* false a completed refresh leaves it false
update_done_sticky(w, o) ==
    /\ pending[w]["update"] > 0
    /\ LET r == async_update_body(o, available[w]) IN
         /\ available' = [available EXCEPT ![w] = @ /\ r.available]
         /\ lastDetermined' = Determined(w, "update", o)
         /\ lastEv' = Event("update", "completed", w, o, available[w], r.raised)
    /\ pending' = [pending EXCEPT ![w]["update"] = @ - 1]
    /\ UNCHANGED <<throttle, now, updateCalls>>

\* update_done of a throttle that is released when the refresh fails: the
\* stamp is dropped unless update() succeeded
update_done_releaseOnFailure(w, o) ==
    /\ pending[w]["update"] > 0
    /\ LET r == async_update_body(o, available[w]) IN
         /\ available' = [available EXCEPT ![w] = r.available]
         /\ lastDetermined' = Determined(w, "update", o)
         /\ lastEv' = Event("update", "completed", w, o, available[w], r.raised)
    /\ pending' = [pending EXCEPT ![w]["update"] = @ - 1]
    /\ throttle' = IF o.exc = "none" THEN throttle ELSE [throttle EXCEPT ![w] = None]
    /\ UNCHANGED <<now, updateCalls>>

\* the awaited device.update() finishes with outcome o and async_update resumes
update_done(w, o) ==
    /\ pending[w]["update"] > 0
    /\ LET r == async_update_body(o, available[w]) IN
         /\ available' = [available EXCEPT ![w] = r.available]
         /\ lastDetermined' = Determined(w, "update", o)
         /\ lastEv' = Event("update", "completed", w, o, available[w], r.raised)
    /\ pending' = [pending EXCEPT ![w]["update"] = @ - 1]
    /\ UNCHANGED <<throttle, now, updateCalls>>

\* async_set behind the refresh throttle: a write inside the interval is
\* answered by the stand-in coroutine, an admitted one stamps the throttle
async_set_throttled(w, properties) ==
    IF ThrottleAdmits(throttle[w], now)
    THEN /\ pending[w]["set"] < MaxInFlight
         /\ throttle' = [throttle EXCEPT ![w] = now]
         /\ pending' = [pending EXCEPT ![w]["set"] = @ + 1]
         /\ lastEv' = SetCall(w, available[w], properties, properties)
         /\ UNCHANGED <<available, now, updateCalls, lastDetermined>>
    ELSE /\ lastEv' = Event("set", "suppressed", w, NoOutcome, available[w], FALSE)
         /\ UNCHANGED <<available, throttle, now, pending, updateCalls, lastDetermined>>

\* async_set that waits for the refresh being awaited: while update() is in
\* flight the write is not started
async_set_exclusive(w, properties) ==
    IF pending[w]["update"] = 0
    THEN /\ pending[w]["set"] < MaxInFlight
         /\ pending' = [pending EXCEPT ![w]["set"] = @ + 1]
         /\ lastEv' = SetCall(w, available[w], properties, properties)
         /\ UNCHANGED <<available, throttle, now, updateCalls, lastDetermined>>
    ELSE /\ lastEv' = Event("set", "suppressed", w, NoOutcome, available[w], FALSE)
         /\ UNCHANGED <<available, throttle, now, pending, updateCalls, lastDetermined>>

\* a caller invokes wrapper.async_set(properties): runs to
\* `await self.device.set(properties)`
async_set(w, properties) ==
    /\ pending[w]["set"] < MaxInFlight
    /\ pending' = [pending EXCEPT ![w]["set"] = @ + 1]
    /\ lastEv' = SetCall(w, available[w], properties, properties)
    /\ UNCHANGED <<available, throttle, now, updateCalls, lastDetermined>>

\* the awaited device.set() finishes with outcome o and async_set resumes
set_done(w, o) ==
    /\ pending[w]["set"] > 0
    /\ LET r == async_set_body(o, available[w]) IN
         /\ available' = [available EXCEPT ![w] = r.available]
         /\ lastDetermined' = Determined(w, "set", o)
         /\ lastEv' = Event("set", "completed", w, o, available[w], r.raised)
    /\ pending' = [pending EXCEPT ![w]["set"] = @ - 1]
    /\ UNCHANGED <<throttle, now, updateCalls>>

\* one wrapper followed through time, with every call a caller may make
Next ==
    \/ Tick /\ UNCHANGED <<infoVars, setupVars, entityVars, watchVars>>
    \/ (\E w \in Polled, no_throttle \in CallerKwargs : async_update(w, no_throttle))
          /\ UNCHANGED <<infoVars, setupVars, entityVars, watchVars>>
    \/ (\E w \in Polled, o \in Outcomes : update_done(w, o))
          /\ UNCHANGED <<infoVars, setupVars, entityVars, watchVars>>
    \/ (\E w \in Polled, p \in Properties : async_set(w, p))
          /\ UNCHANGED <<infoVars, setupVars, entityVars, watchVars>>
    \/ (\E w \in Polled, o \in Outcomes : set_done(w, o))
          /\ UNCHANGED <<infoVars, setupVars, entityVars, watchVars>>

Spec == Init /\ [][Next]_vars

\* the wrappers of the fleet called side by side within one minute, the
\* span in which a shared throttle or flag would show
NextFleet ==
    \/ (\E w \in Wrappers, no_throttle \in CallerKwargs : async_update(w, no_throttle))
          /\ UNCHANGED <<infoVars, setupVars, entityVars, watchVars>>
    \/ (\E w \in Wrappers, o \in Outcomes : update_done(w, o))
          /\ UNCHANGED <<infoVars, setupVars, entityVars, watchVars>>
    \/ (\E w \in Wrappers, p \in Properties : async_set(w, p))
          /\ UNCHANGED <<infoVars, setupVars, entityVars, watchVars>>
    \/ (\E w \in Wrappers, o \in Outcomes : set_done(w, o))
          /\ UNCHANGED <<infoVars, setupVars, entityVars, watchVars>>

SpecFleet == Init /\ [][NextFleet]_vars

TypeOK ==
    /\ available \in [Wrappers -> BOOLEAN]
    /\ throttle \in [Wrappers -> {None} \cup (0..MaxTime)]
    /\ now \in 0..MaxTime
    /\ \A w \in Wrappers : \A op \in {"update", "set"} : pending[w][op] \in 0..(IF op = "update" THEN MaxUpdateCalls ELSE MaxInFlight)

(* ----------------------- device_info (registry) ----------------------- *)

\* the registry reads wrapper.device_info
device_info ==
    /\ model = NotRead
    /\ model' = DeviceInfoModel(units)
    /\ UNCHANGED units

InitInfo ==
    /\ InitDevices
    /\ Booted
    /\ EntitiesIdle
    /\ units \in UnitInputs
    /\ model = NotRead

NextInfo ==
    device_info /\ UNCHANGED <<deviceVars, setupVars, entityVars, watchVars>>

SpecInfo == InitInfo /\ [][NextInfo]_vars

(* ---------------------------- entry setup ---------------------------- *)

\* async_setup_entry goes on after the migration: mel_devices_setup enters
\* asyncio.timeout(10) and awaits get_devices
StartFetch ==
    /\ setupResult' = "awaiting"
    /\ fetch' = "running"
    /\ fetchTime' = 0

\* async_setup_entry is called and awaits _async_migrate_pymelcloud_package.
\* With no old 'pymelcloud' distribution (old = FALSE) the migration returns
\* at once and the call runs on to the awaited get_devices; with one it runs
\* to the first awaited executor job (pip uninstall)
async_setup_entry(old) ==
    /\ setupResult = "not called"
    /\ IF old
       THEN /\ migration' = "uninstalling"
            /\ setupResult' = "migrating"
            /\ UNCHANGED <<fetch, fetchTime>>
       ELSE /\ migration' = "absent"
            /\ StartFetch
    /\ UNCHANGED <<inventory, fetchError, hassData, forwarded, constructed, unloadResult>>

\* the awaited executor job of the migration ends with result.  pip exiting
\* non-zero is caught (the migration returns False and the setup goes on);
\* another exception leaves async_setup_entry before any fetch; after the
\* second job the symbols are imported again, which may raise as well
executor_job_done(result, reimport) ==
    /\ setupResult = "migrating"
    /\ IF result = "CalledProcessError"
       THEN /\ migration' = "failed"
            /\ StartFetch
       ELSE IF result # "ok"
       THEN /\ migration' = "raised"
            /\ setupResult' = result
            /\ UNCHANGED <<fetch, fetchTime>>
       ELSE IF migration = "uninstalling"
       THEN /\ migration' = "installing"
            /\ UNCHANGED <<setupResult, fetch, fetchTime>>
       ELSE IF reimport = "ok"
       THEN /\ migration' = "migrated"
            /\ StartFetch
       ELSE /\ migration' = "raised"
            /\ setupResult' = reimport
            /\ UNCHANGED <<fetch, fetchTime>>
    /\ UNCHANGED <<inventory, fetchError, hassData, forwarded, constructed, unloadResult>>

\* a second passes while get_devices is awaited
FetchTick ==
    /\ fetch = "running"
    /\ fetchTime < FETCH_TIMEOUT
    /\ fetchTime' = fetchTime + 1
    /\ UNCHANGED <<inventory, fetch, fetchError, setupResult, hassData, forwarded,
                   constructed, migration, unloadResult>>

\* get_devices returns inside the deadline: the devices are wrapped, the
\* fleet is stored under the entry and async_setup_entry runs to the awaited
\* async_forward_entry_setups
get_devices_returns ==
    /\ fetch = "running"
    /\ fetchTime < FETCH_TIMEOUT
    /\ fetch' = "returned"
    /\ constructed' = constructed + DeviceCount(inventory)
    /\ hassData' = [stored |-> TRUE, fleet |-> WrapDevices(inventory)]
    /\ setupResult' = "forwarding"
    /\ UNCHANGED <<inventory, fetchTime, fetchError, forwarded, migration, unloadResult>>

\* the awaited async_forward_entry_setups returns: the platforms are set up
\* and async_setup_entry returns True
forward_entry_setups_returns ==
    /\ setupResult = "forwarding"
    /\ forwarded' = TRUE
    /\ setupResult' = "True"
    /\ UNCHANGED <<inventory, fetch, fetchTime, fetchError, hassData, constructed,
                   migration, unloadResult>>

\* the awaited async_forward_entry_setups raises ex: async_setup_entry raises
\* it and the fleet stays in hass.data
forward_entry_setups_raises(ex) ==
    /\ setupResult = "forwarding"
    /\ setupResult' = ex
    /\ UNCHANGED <<inventory, fetch, fetchTime, fetchError, hassData, forwarded,
                   constructed, migration, unloadResult>>

\* get_devices raises ex inside the deadline: async_setup_entry raises
get_devices_raises(ex) ==
    /\ fetch = "running"
    /\ fetchTime < FETCH_TIMEOUT
    /\ fetch' = "raised"
    /\ fetchError' = ex
    /\ setupResult' = SetupFailure(ex)
    /\ UNCHANGED <<inventory, fetchTime, hassData, forwarded, constructed,
                   migration, unloadResult>>

\* a deadline that gives up on the inventory and sets up an empty fleet
fetch_deadline_emptyFleet ==
    /\ fetch = "running"
    /\ fetchTime = FETCH_TIMEOUT
    /\ fetch' = "cancelled"
    /\ hassData' = [stored |-> TRUE, fleet |-> <<>>]
    /\ forwarded' = TRUE
    /\ setupResult' = "True"
    /\ UNCHANGED <<inventory, fetchTime, fetchError, constructed, migration, unloadResult>>

\* the deadline of asyncio.timeout(10) passes: get_devices is cancelled and
\* TimeoutError leaves the block, before any wrapper is built
fetch_deadline ==
    /\ fetch = "running"
    /\ fetchTime = FETCH_TIMEOUT
    /\ fetch' = "cancelled"
    /\ setupResult' = SetupFailure([exc |-> "TimeoutError", status |-> 0])
    /\ UNCHANGED <<inventory, fetchTime, fetchError, hassData, forwarded, constructed,
                   migration, unloadResult>>

\* async_unload_entry is called on the entry that was set up: it runs to
\* the awaited async_unload_platforms
async_unload_entry ==
    /\ setupResult = "True"
    /\ unloadResult = "not called"
    /\ unloadResult' = "awaiting"
    /\ UNCHANGED <<inventory, fetch, fetchTime, fetchError, setupResult, hassData,
                   forwarded, constructed, migration>>

\* the awaited async_unload_platforms returns unload_ok: the entry's fleet is
\* popped from hass.data whatever unload_ok is, and unload_ok is returned;
\* the platforms stay set up when it is False
unload_platforms_returns(unload_ok) ==
    /\ unloadResult = "awaiting"
    /\ forwarded' = (forwarded /\ ~unload_ok)
    /\ hassData' = NoFleet
    /\ unloadResult' = IF unload_ok THEN "True" ELSE "False"
    /\ UNCHANGED <<inventory, fetch, fetchTime, fetchError, setupResult, constructed,
                   migration>>

\* the awaited async_unload_platforms raises ex: async_unload_entry raises it
\* before the pop, the fleet stays in hass.data
unload_platforms_raises(ex) ==
    /\ unloadResult = "awaiting"
    /\ unloadResult' = ex
    /\ UNCHANGED <<inventory, fetch, fetchTime, fetchError, setupResult, hassData,
                   forwarded, constructed, migration>>

InitSetup ==
    /\ InitDevices
    /\ InfoIdle
    /\ EntitiesIdle
    /\ inventory \in Inventories
    /\ fetch = "none"
    /\ fetchTime = 0
    /\ fetchError = NoOutcome
    /\ setupResult = "not called"
    /\ hassData = NoFleet
    /\ forwarded = FALSE
    /\ constructed = 0
    /\ migration = "not run"
    /\ unloadResult = "not called"

NextSetup ==
    \/ (\E old \in BOOLEAN : async_setup_entry(old))
          /\ UNCHANGED <<deviceVars, infoVars, entityVars, watchVars>>
    \/ (\E result \in ExecutorResults, reimport \in ImportResults :
            executor_job_done(result, reimport))
          /\ UNCHANGED <<deviceVars, infoVars, entityVars, watchVars>>
    \/ FetchTick /\ UNCHANGED <<deviceVars, infoVars, entityVars, watchVars>>
    \/ get_devices_returns /\ UNCHANGED <<deviceVars, infoVars, entityVars, watchVars>>
    \/ forward_entry_setups_returns
          /\ UNCHANGED <<deviceVars, infoVars, entityVars, watchVars>>
    \/ (\E ex \in PlatformErrors : forward_entry_setups_raises(ex))
          /\ UNCHANGED <<deviceVars, infoVars, entityVars, watchVars>>
    \/ (\E ex \in FetchErrors : get_devices_raises(ex))
          /\ UNCHANGED <<deviceVars, infoVars, entityVars, watchVars>>
    \/ fetch_deadline /\ UNCHANGED <<deviceVars, infoVars, entityVars, watchVars>>
    \/ async_unload_entry /\ UNCHANGED <<deviceVars, infoVars, entityVars, watchVars>>
    \/ (\E unload_ok \in BOOLEAN : unload_platforms_returns(unload_ok))
          /\ UNCHANGED <<deviceVars, infoVars, entityVars, watchVars>>
    \/ (\E ex \in PlatformErrors : unload_platforms_raises(ex))
          /\ UNCHANGED <<deviceVars, infoVars, entityVars, watchVars>>

SpecSetup == InitSetup /\ [][NextSetup]_vars

(* ------------------------ switch and select entities ------------------ *)

\* the devices of the wrappers in the lists of the classes cs of a fleet
WrappedDevices(mel_devices, cs) ==
    UNION { { mel_devices[c][i].device : i \in 1..Len(mel_devices[c]) } :
              c \in cs \cap DOMAIN mel_devices }

\* switch.async_setup_entry: one PowerSwitch per wrapper of the classes erv,
\* ata and atw; indexing a class the fleet lacks raises KeyError before
\* async_add_entities, and no switch exists
SwitchEntities ==
    IF hassData.stored /\ forwarded /\ Classes \subseteq DOMAIN hassData.fleet
    THEN WrappedDevices(hassData.fleet, Classes)
    ELSE {}

\* select.async_setup_entry: an ErvFanSpeedSelect and an
\* ErvVentilationModeSelect per wrapper of the class erv
SelectEntities ==
    IF hassData.stored /\ forwarded /\ "erv" \in DOMAIN hassData.fleet
    THEN WrappedDevices(hassData.fleet, {"erv"})
    ELSE {}

\* an entity method runs to `await self._device.set(set_dict)`: the call goes
\* to the accessor, not through wrapper.async_set
entity_set(w, set_dict) ==
    /\ direct[w] < MaxInFlight
    /\ direct' = [direct EXCEPT ![w] = @ + 1]
    /\ lastEv' = [SetCall(w, available[w], set_dict, set_dict) EXCEPT !.op = "entity_set"]
    /\ UNCHANGED <<available, throttle, now, pending, updateCalls, lastDetermined>>

\* PowerSwitch.async_turn_on
async_turn_on(w) ==
    entity_set(w, [key |-> "power", value |-> "True"])

\* PowerSwitch.async_turn_off
async_turn_off(w) ==
    entity_set(w, [key |-> "power", value |-> "False"])

\* ErvFanSpeedSelect.async_select_option
fan_speed_select_option(w, option) ==
    entity_set(w, [key |-> "fan_speed", value |-> option])

\* ErvVentilationModeSelect.async_select_option
ventilation_mode_select_option(w, option) ==
    entity_set(w, [key |-> "ventilation_mode", value |-> option])

\* the device.set() awaited by an entity finishes with outcome o: the entity
\* method has no try, so what set() raises reaches the caller and the
\* wrapper's flag is not touched
entity_set_done(w, o) ==
    /\ direct[w] > 0
    /\ direct' = [direct EXCEPT ![w] = @ - 1]
    /\ lastEv' = Event("entity_set", "completed", w, o, available[w], o.exc # "none")
    /\ UNCHANGED <<available, throttle, now, pending, updateCalls, lastDetermined>>

NextEntities ==
    \/ (\E w \in SwitchEntities : async_turn_on(w))
          /\ UNCHANGED <<infoVars, setupVars, watchVars>>
    \/ (\E w \in SwitchEntities : async_turn_off(w))
          /\ UNCHANGED <<infoVars, setupVars, watchVars>>
    \/ (\E w \in SelectEntities : fan_speed_select_option(w, "1"))
          /\ UNCHANGED <<infoVars, setupVars, watchVars>>
    \/ (\E w \in SelectEntities : ventilation_mode_select_option(w, "auto"))
          /\ UNCHANGED <<infoVars, setupVars, watchVars>>
    \/ (\E w \in Wrappers, o \in Outcomes : entity_set_done(w, o))
          /\ UNCHANGED <<infoVars, setupVars, watchVars>>
    \/ (\E w \in Wrappers, p \in Properties : async_set(w, p))
          /\ UNCHANGED <<infoVars, setupVars, entityVars, watchVars>>
    \/ (\E w \in Wrappers, o \in Outcomes : set_done(w, o))
          /\ UNCHANGED <<infoVars, setupVars, entityVars, watchVars>>

SpecEntities == Init /\ [][NextEntities]_vars

(* ---------------------- one wrapper under observation ----------------- *)

\* history variable: a resumption that returns normally and leaves the flag
\* False has assigned False; the mark is dropped when the flag is True
TrackMarked ==
    markedBy' =
        [v \in Wrappers |->
            IF available'[v] THEN "none"
            ELSE IF /\ now' = now
                    /\ pending'[v] # pending[v]
                    /\ lastEv'.phase = "completed"
                    /\ lastEv'.w = v
                    /\ ~lastEv'.raised
                 THEN lastEv'.op
                 ELSE markedBy[v]]

NextWatch ==
    \/ Tick /\ TrackMarked /\ UNCHANGED <<infoVars, setupVars, entityVars>>
    \/ (\E w \in Polled, no_throttle \in CallerKwargs : async_update(w, no_throttle))
          /\ TrackMarked /\ UNCHANGED <<infoVars, setupVars, entityVars>>
    \/ (\E w \in Polled, o \in Outcomes : update_done(w, o))
          /\ TrackMarked /\ UNCHANGED <<infoVars, setupVars, entityVars>>
    \/ (\E w \in Polled, p \in Properties : async_set(w, p))
          /\ TrackMarked /\ UNCHANGED <<infoVars, setupVars, entityVars>>
    \/ (\E w \in Polled, o \in Outcomes : set_done(w, o))
          /\ TrackMarked /\ UNCHANGED <<infoVars, setupVars, entityVars>>

SpecWatch == Init /\ [][NextWatch]_vars

(* ----------------------------- poll loop ------------------------------ *)

\* the stamps of an accessor's update() record one minute further in the
\* past; an invocation that falls off the clock is forgotten
RECURSIVE Aged(_)
Aged(times) ==
    IF times = <<>> THEN <<>>
    ELSE IF times[1] = 0 THEN Aged(Tail(times))
    ELSE <<times[1] - 1>> \o Aged(Tail(times))

\* a minute passes at the end of the clock: the clock keeps its reading and
\* every stamp moves one minute into the past instead (a stamp at 0 is more
\* than the interval old and stays there)
Rebase ==
    /\ now = MaxTime
    /\ throttle' = [w \in Wrappers |->
                      IF throttle[w] = None \/ throttle[w] = 0 THEN throttle[w]
                      ELSE throttle[w] - 1]
    /\ updateCalls' = [w \in Wrappers |-> Aged(updateCalls[w])]
    /\ UNCHANGED <<available, now, pending, lastDetermined, lastEv>>

NextPoll ==
    \/ Tick /\ UNCHANGED <<infoVars, setupVars, entityVars, watchVars>>
    \/ Rebase /\ UNCHANGED <<infoVars, setupVars, entityVars, watchVars>>
    \/ (\E w \in Polled, no_throttle \in CallerKwargs : async_update(w, no_throttle))
          /\ UNCHANGED <<infoVars, setupVars, entityVars, watchVars>>
    \/ (\E w \in Polled, o \in Outcomes : update_done(w, o))
          /\ UNCHANGED <<infoVars, setupVars, entityVars, watchVars>>
    \/ (\E w \in Polled, p \in Properties : async_set(w, p))
          /\ UNCHANGED <<infoVars, setupVars, entityVars, watchVars>>
    \/ (\E w \in Polled, o \in Outcomes : set_done(w, o))
          /\ UNCHANGED <<infoVars, setupVars, entityVars, watchVars>>

\* time advances, the poll loop keeps calling async_update(), and update()
\* succeeds again and again when it is called again and again
PollFairness ==
    /\ WF_deviceVars(Tick)
    /\ WF_deviceVars(Rebase)
    /\ \A w \in Polled : WF_deviceVars(async_update(w, FALSE))
    /\ \A w \in Polled :
          SF_deviceVars(update_done(w, [exc |-> "none", status |-> 0]))

SpecPoll == Init /\ [][NextPoll]_vars /\ PollFairness

(* ------------------------- checked properties ------------------------- *)

\* the last step was the resumption of op on some wrapper with an outcome
\* of exception class exc
Completed(op, exc) ==
    /\ lastEv.op = op
    /\ lastEv.phase = "completed"
    /\ lastEv.outcome.exc = exc

\* C1: history independence of availability.  `available` is true before any
\* call and afterwards always equals the value determined by the most recent
\* determining call (refresh success, refresh non-401 rejection, write
\* success: true; refresh/write connectivity failure, refresh shape error:
\* false); suppressed and raising calls leave it alone.
C1_HistoryIndependence ==
    \A w \in Wrappers : available[w] = lastDetermined[w]

\* a determining failure has overwritten an earlier determining success,
\* and a raising call came after it
C1_Witness ==
    /\ Completed("set", "ClientResponseError")
    /\ lastEv.raised
    /\ available[lastEv.w] = FALSE
    /\ lastDetermined[lastEv.w] = FALSE
    /\ Len(updateCalls[lastEv.w]) > 0

\* C2: a non-suppressed refresh whose update() is rejected with status 401
\* re-raises to the caller and leaves `available` as it was.
C2_AuthFailurePropagates ==
    (Completed("update", "ClientResponseError") /\ lastEv.outcome.status = 401)
        => /\ lastEv.raised
           /\ available[lastEv.w] = lastEv.before

C2_Witness ==
    /\ Completed("update", "ClientResponseError")
    /\ lastEv.outcome.status = 401
    /\ lastEv.before = FALSE
    /\ available[lastEv.w] = FALSE
    /\ lastEv.raised

\* C3: a non-suppressed refresh whose update() raises a connectivity error
\* ends with available = false and returns normally.
C3_RefreshConnectivityFailure ==
    Completed("update", "ClientConnectionError")
        => /\ ~lastEv.raised
           /\ available[lastEv.w] = FALSE

C3_Witness ==
    /\ Completed("update", "ClientConnectionError")
    /\ lastEv.before = TRUE
    /\ available[lastEv.w] = FALSE
    /\ ~lastEv.raised

\* C4: a non-suppressed refresh whose update() is rejected with a status
\* other than 401 ends with available = true and returns normally, also
\* when available was false before.
C4_PartialFeedAbsorbed ==
    (Completed("update", "ClientResponseError") /\ lastEv.outcome.status # 401)
        => /\ ~lastEv.raised
           /\ available[lastEv.w] = TRUE

C4_Witness ==
    /\ Completed("update", "ClientResponseError")
    /\ lastEv.outcome.status = 500
    /\ lastEv.before = FALSE
    /\ available[lastEv.w] = TRUE
    /\ ~lastEv.raised

\* C5: a non-suppressed refresh whose update() fails with a shape error
\* (AttributeError) ends with available = false and returns normally.
C5_ShapeErrorAbsorbed ==
    Completed("update", "AttributeError")
        => /\ ~lastEv.raised
           /\ available[lastEv.w] = FALSE

C5_Witness ==
    /\ Completed("update", "AttributeError")
    /\ lastEv.before = TRUE
    /\ available[lastEv.w] = FALSE
    /\ ~lastEv.raised

\* C6: a non-suppressed refresh whose update() succeeds ends with
\* available = true, also when available was false before.
C6_RefreshSuccess ==
    Completed("update", "none")
        => /\ ~lastEv.raised
           /\ available[lastEv.w] = TRUE

C6_Witness ==
    /\ Completed("update", "none")
    /\ lastEv.before = FALSE
    /\ available[lastEv.w] = TRUE

\* the last step started a call of op (admitted or not)
CallStep(op) ==
    /\ now' = now
    /\ lastEv' # lastEv \/ pending' # pending
    /\ lastEv'.op = op
    /\ lastEv'.phase # "completed"

\* C7 as stated: throttle idempotence.  Two refresh calls on one wrapper made
\* less than MIN_TIME_BETWEEN_UPDATES apart, sequential or overlapping, cause
\* at most one update() invocation: any two recorded update() invocations of
\* one accessor lie at least the interval apart.
C7_ThrottleIdempotence ==
    \A w \in Wrappers :
        \A i, j \in 1..Len(updateCalls[w]) :
            i < j => updateCalls[w][j] - updateCalls[w][i] >= MIN_TIME_BETWEEN_UPDATES

\* C7 (amended): throttle idempotence of the calls that do not pass
\* no_throttle=True.  Such a refresh call invokes update() at most once, and
\* only when every earlier update() invocation of the accessor, by whatever
\* call and whether or not it is still awaited, lies at least
\* MIN_TIME_BETWEEN_UPDATES back; made sooner it invokes nothing.
C7_UnforcedIdempotence ==
    [][ \A w \in Wrappers :
          (CallStep("update") /\ lastEv'.w = w /\ ~lastEv'.no_throttle)
            => /\ updateCalls'[w] \in {updateCalls[w], Append(updateCalls[w], now)}
               /\ updateCalls'[w] # updateCalls[w]
                    => \A i \in 1..Len(updateCalls[w]) :
                          now - updateCalls[w][i] >= MIN_TIME_BETWEEN_UPDATES
               /\ (\E i \in 1..Len(updateCalls[w]) :
                       now - updateCalls[w][i] < MIN_TIME_BETWEEN_UPDATES)
                    => /\ lastEv'.phase = "suppressed"
                       /\ pending' = pending
      ]_vars

\* a second refresh without no_throttle arrived inside the interval while the
\* first was still awaiting update(), and was suppressed
C7_Witness ==
    /\ lastEv.op = "update"
    /\ lastEv.phase = "suppressed"
    /\ ~lastEv.no_throttle
    /\ pending[lastEv.w]["update"] = 1
    /\ Len(updateCalls[lastEv.w]) = 1
    /\ now > updateCalls[lastEv.w][1]
    /\ now - updateCalls[lastEv.w][1] < MIN_TIME_BETWEEN_UPDATES

\* C8: a suppressed refresh is coalesced, not queued.  The step of a
\* suppressed call returns without error and leaves the flag, the throttle
\* state, the awaited calls and the accessor's call record unchanged; and
\* update() is only ever invoked by the step of an admitted refresh call, at
\* that call's own time.
C8_SuppressedIsCoalesced ==
    [][ /\ (now' = now /\ lastEv'.phase = "suppressed")
            => /\ ~lastEv'.raised
               /\ UNCHANGED <<available, throttle, pending, updateCalls>>
        /\ \A w \in Wrappers :
              updateCalls'[w] # updateCalls[w]
                => /\ lastEv'.op = "update"
                   /\ lastEv'.phase = "invoked"
                   /\ lastEv'.w = w
                   /\ updateCalls'[w] = Append(updateCalls[w], now)
        /\ \A w \in Wrappers :
              pending'[w]["update"] > pending[w]["update"]
                => updateCalls'[w] # updateCalls[w]
      ]_vars

\* a refresh was suppressed on an unavailable wrapper with nothing awaited,
\* and the interval has since elapsed
C8_Witness ==
    /\ lastEv.op = "update"
    /\ lastEv.phase = "suppressed"
    /\ pending[lastEv.w]["update"] = 0
    /\ available[lastEv.w] = FALSE
    /\ Len(updateCalls[lastEv.w]) = 1
    /\ now - throttle[lastEv.w] > MIN_TIME_BETWEEN_UPDATES

\* C9: a write whose set() raises a connectivity error ends with
\* available = false and returns normally; the write is not re-issued (the
\* resumption only retires the awaited call and starts no other).
C9_WriteConnectivityFailure ==
    [][ (now' = now /\ Completed("set", "ClientConnectionError")')
            => /\ ~lastEv'.raised
               /\ available'[lastEv'.w] = FALSE
               /\ pending'[lastEv'.w]["set"] = pending[lastEv'.w]["set"] - 1
               /\ pending'[lastEv'.w]["update"] = pending[lastEv'.w]["update"]
               /\ updateCalls' = updateCalls
      ]_vars

C9_Witness ==
    /\ Completed("set", "ClientConnectionError")
    /\ lastEv.before = TRUE
    /\ available[lastEv.w] = FALSE
    /\ ~lastEv.raised
    /\ pending[lastEv.w]["set"] = 0

\* C10: a write whose set() fails with a rejection (401 or any other status)
\* or a shape error propagates the failure and leaves `available` as it was.
C10_WriteOtherFailuresPropagate ==
    (Completed("set", "ClientResponseError") \/ Completed("set", "AttributeError"))
        => /\ lastEv.raised
           /\ available[lastEv.w] = lastEv.before

\* a non-401 rejection of a write on an unavailable wrapper: raised, and the
\* wrapper stays unavailable (a refresh would have absorbed it)
C10_Witness ==
    /\ Completed("set", "ClientResponseError")
    /\ lastEv.outcome.status = 500
    /\ lastEv.before = FALSE
    /\ available[lastEv.w] = FALSE
    /\ lastEv.raised
\* C11: writes are not throttled.  Every async_set invocation, whatever the
\* throttle state and whatever is being awaited, starts exactly one
\* device.set() call with the properties it was given, and leaves the refresh
\* throttle state (and the accessor's update() record) untouched.
C11_WritesNotThrottled ==
    [][ CallStep("set")
            => /\ lastEv'.phase = "invoked"
               /\ lastEv'.passed = lastEv'.given
               /\ pending'[lastEv'.w]["set"] = pending[lastEv'.w]["set"] + 1
               /\ throttle' = throttle
               /\ updateCalls' = updateCalls
               /\ available' = available
      ]_vars

\* a write started inside the throttle interval of a refresh that is still
\* being awaited
C11_Witness ==
    /\ lastEv.op = "set"
    /\ lastEv.phase = "invoked"
    /\ lastEv.passed = [key |-> "fan_speed", value |-> "1"]
    /\ pending[lastEv.w]["set"] = 1
    /\ pending[lastEv.w]["update"] = 1
    /\ throttle[lastEv.w] # None
    /\ now - throttle[lastEv.w] < MIN_TIME_BETWEEN_UPDATES

\* C15: wrapper isolation.  A step of a refresh or write on wrapper a leaves
\* the flag, the throttle state, the awaited calls and the accessor call
\* record of every other wrapper b unchanged; in particular whether a refresh
\* of b would be admitted does not change.
C15_WrapperIsolation ==
    [][ \A a, b \in Wrappers :
          (a # b /\ now' = now /\ lastEv'.w = a)
            => /\ available'[b] = available[b]
               /\ throttle'[b] = throttle[b]
               /\ pending'[b] = pending[b]
               /\ updateCalls'[b] = updateCalls[b]
               /\ ThrottleAdmits(throttle'[b], now') = ThrottleAdmits(throttle[b], now)
      ]_vars

\* a first refresh of one wrapper, made without no_throttle, was admitted in
\* the minute in which the other wrapper was refreshed, failed, and was
\* refreshed again by force; the other is unavailable and stays so
C15_Witness ==
    /\ lastEv.op = "update"
    /\ lastEv.phase = "invoked"
    /\ lastEv.w = "erv"
    /\ ~lastEv.no_throttle
    /\ updateCalls["erv"] = <<now>>
    /\ throttle["ata"] = now
    /\ Len(updateCalls["ata"]) = 2
    /\ pending["ata"]["update"] = 1
    /\ available["ata"] = FALSE
    /\ available["erv"] = TRUE

\* the last step resumed a call of op on wrapper w
DoneStep(op, w) ==
    /\ now' = now
    /\ pending'[w][op] = pending[w][op] - 1
    /\ lastEv'.op = op
    /\ lastEv'.phase = "completed"
    /\ lastEv'.w = w

\* the operation racing with op on the same wrapper
OtherOp(op) ==
    IF op = "update" THEN "set" ELSE "update"

\* C18: refresh/write race on one wrapper.  A write is started while a
\* refresh is awaited, and a refresh while a write is awaited unless the
\* throttle interval suppresses it; when either call completes with an
\* outcome that determines the flag, `available` takes that call's value
\* whatever the other call did or will do, and the other call stays awaited:
\* the call whose accessor call completes last decides.
C18_LastCompletionWins ==
    [][ \A w \in Wrappers :
          /\ (CallStep("set") /\ lastEv'.w = w /\ pending[w]["update"] > 0)
                => lastEv'.phase = "invoked"
          /\ (CallStep("update") /\ lastEv'.w = w /\ pending[w]["set"] > 0
                  /\ lastEv'.phase = "suppressed")
                => /\ Len(updateCalls[w]) > 0
                   /\ now - updateCalls[w][Len(updateCalls[w])] <= MIN_TIME_BETWEEN_UPDATES
          /\ \A op \in {"update", "set"} :
                DoneStep(op, w)
                  => /\ pending'[w][OtherOp(op)] = pending[w][OtherOp(op)]
                     /\ ContractValue(op, lastEv'.outcome) = "true" => available'[w] = TRUE
                     /\ ContractValue(op, lastEv'.outcome) = "false" => available'[w] = FALSE
                     /\ ContractValue(op, lastEv'.outcome) = "keep"
                           => available'[w] = available[w]
      ]_vars

\* a refresh succeeded on an unavailable wrapper while a write is still
\* awaited: the two calls overlap, the write will complete last
C18_Witness ==
    /\ Completed("update", "none")
    /\ lastEv.before = FALSE
    /\ available[lastEv.w] = TRUE
    /\ pending[lastEv.w]["set"] = 1
    /\ pending[lastEv.w]["update"] = 0
    /\ throttle[lastEv.w] = now
\* the model string built unit by unit from the left: a unit without a model
\* adds nothing, the first unit with a model starts the string, every later
\* one adds ", " and its model
RECURSIVE ModelsInOrder(_)
ModelsInOrder(list) ==
    IF list = <<>> THEN ""
    ELSE LET front == ModelsInOrder(SubSeq(list, 1, Len(list) - 1))
             last == list[Len(list)].model
         IN IF last = "" THEN front
            ELSE IF front = "" THEN last
            ELSE front \o ", " \o last

\* C17: model-string derivation.  The model of the device identity is the
\* non-empty model strings of the units, in unit order, joined by ", "
\* (A, empty, B gives "A, B"); it is the empty string when every model is
\* empty or the unit list is empty; no model string is produced when the
\* accessor reports no units.
C17_ModelString ==
    model # NotRead
        => /\ ~units.present => model = NoModel
           /\ units.present
                => /\ model.present
                   /\ model.str = ModelsInOrder(units.list)
                   /\ (\A i \in 1..Len(units.list) : units.list[i].model = "")
                         => model.str = ""
           /\ units.list = <<[model |-> "A"], [model |-> ""], [model |-> "B"]>>
                => model.str = "A, B"

C17_Witness ==
    /\ units.present
    /\ units.list = <<[model |-> "A"], [model |-> ""], [model |-> "B"]>>
    /\ model = [present |-> TRUE, str |-> "A, B"]
\* C13: bootstrap failures are distinguishable.  Setup raises
\* ConfigEntryAuthFailed exactly when the inventory retrieval was rejected
\* with status 401, and ConfigEntryNotReady for the deadline, a TimeoutError,
\* a connectivity error and a rejection with any other status.
C13_SetupFailuresDistinct ==
    /\ setupResult = "ConfigEntryAuthFailed"
         <=> (fetch = "raised" /\ fetchError = [exc |-> "ClientResponseError", status |-> 401])
    /\ fetch = "cancelled" => setupResult = "ConfigEntryNotReady"
    /\ (fetch = "raised" /\ fetchError.exc \in {"TimeoutError", "ClientConnectionError"})
         => setupResult = "ConfigEntryNotReady"
    /\ (fetch = "raised" /\ fetchError.exc = "ClientResponseError" /\ fetchError.status # 401)
         => setupResult = "ConfigEntryNotReady"

C13_Witness ==
    /\ fetch = "raised"
    /\ fetchError = [exc |-> "ClientResponseError", status |-> 401]
    /\ setupResult = "ConfigEntryAuthFailed"
    /\ fetchTime > 0

\* C14: a bootstrap timeout yields no partial fleet.  When get_devices has not
\* returned at the deadline it is cancelled, setup fails with
\* ConfigEntryNotReady, no wrapper is constructed, nothing is stored in
\* hass.data for the entry and no platform is set up.
C14_TimeoutNoFleet ==
    (fetch = "running" => fetchTime <= FETCH_TIMEOUT)
    /\ (fetch = "cancelled"
          => /\ fetchTime = FETCH_TIMEOUT
             /\ setupResult = "ConfigEntryNotReady"
             /\ constructed = 0
             /\ hassData = NoFleet
             /\ ~forwarded)

\* the deadline passed on an inventory that holds devices
C14_Witness ==
    /\ fetch = "cancelled"
    /\ fetchTime = FETCH_TIMEOUT
    /\ setupResult = "ConfigEntryNotReady"
    /\ DeviceCount(inventory) > 0
    /\ hassData = NoFleet

\* C16: a successful bootstrap wraps uniformly.  The stored fleet has exactly
\* the class keys of the inventory; for each class the wrapper list is as
\* long as the device list and its i-th wrapper wraps the i-th device and is
\* available; one wrapper was constructed per device.
C16_UniformWrapping ==
    /\ (setupResult = "True" /\ unloadResult \notin {"True", "False"})
          => hassData.stored
    /\ hassData.stored
          => /\ DOMAIN hassData.fleet = DOMAIN inventory
             /\ \A c \in DOMAIN inventory :
                   /\ Len(hassData.fleet[c]) = Len(inventory[c])
                   /\ \A i \in 1..Len(inventory[c]) :
                         /\ hassData.fleet[c][i].device = inventory[c][i]
                         /\ hassData.fleet[c][i].available = TRUE
             /\ constructed = DeviceCount(inventory)

\* two devices of different classes, and a class without devices: the fleet
\* has the three class keys, two of them with one wrapper each
C16_Witness ==
    /\ setupResult = "True"
    /\ unloadResult = "not called"
    /\ inventory = [c \in {"ata", "atw", "erv"} |->
                       IF c = "ata" THEN <<"ata">> ELSE IF c = "erv" THEN <<"erv">> ELSE <<>>]
    /\ DOMAIN hassData.fleet = {"ata", "atw", "erv"}
    /\ Len(hassData.fleet["ata"]) = 1
    /\ Len(hassData.fleet["erv"]) = 1
    /\ hassData.fleet["atw"] = <<>>
    /\ fetchTime < FETCH_TIMEOUT
\* C12: all user-issued writes are mediated by the wrapper.  An entity write
\* (power switch on/off, fan-speed select, ventilation-mode select) whose
\* set() raises a connectivity error sets the wrapper's `available` to false
\* and raises nothing to the entity's caller.
C12_EntityWritesMediated ==
    (Completed("entity_set", "ClientConnectionError"))
        => /\ available[lastEv.w] = FALSE
           /\ ~lastEv.raised
\* a refresh call made without no_throttle inside the throttle interval of the
\* last update() invocation is suppressed and invokes nothing, whatever
\* became of that invocation
UnforcedSuppressedInsideInterval ==
    \A w \in Wrappers :
        (/\ CallStep("update")
         /\ lastEv'.w = w
         /\ ~lastEv'.no_throttle
         /\ Len(updateCalls[w]) > 0
         /\ now - updateCalls[w][Len(updateCalls[w])] <= MIN_TIME_BETWEEN_UPDATES)
          => /\ lastEv'.phase = "suppressed"
             /\ updateCalls' = updateCalls
             /\ pending' = pending

\* every refresh call inside the throttle interval of the last update()
\* invocation is suppressed and invokes nothing, whatever became of that
\* invocation
SuppressedInsideInterval ==
    \A w \in Wrappers :
        (/\ CallStep("update")
         /\ lastEv'.w = w
         /\ Len(updateCalls[w]) > 0
         /\ now - updateCalls[w][Len(updateCalls[w])] <= MIN_TIME_BETWEEN_UPDATES)
          => /\ lastEv'.phase = "suppressed"
             /\ updateCalls' = updateCalls
             /\ pending' = pending

\* C19 as stated: a failed refresh consumes the throttle window, and a wrapper
\* marked unavailable by a refresh becomes available again only when a
\* refresh or a write succeeds.
C19_AsStated ==
    [][ /\ SuppressedInsideInterval
        /\ \A w \in Wrappers :
              (markedBy[w] = "update" /\ ~available[w] /\ available'[w])
                => /\ lastEv'.phase = "completed"
                   /\ lastEv'.w = w
                   /\ lastEv'.outcome.exc = "none"
      ]_vars

\* C19 (amended): a failed refresh consumes the throttle window for the calls
\* that do not pass no_throttle=True, and a wrapper marked unavailable by a
\* refresh becomes available again only when a call on it completes that
\* sets the flag: a write that succeeds, or a refresh (admitted after the
\* interval, admitted earlier and still awaited, or forced) whose update()
\* succeeds or is rejected with a status other than 401.
C19_FailedRefreshConsumesWindow ==
    [][ /\ UnforcedSuppressedInsideInterval
        /\ \A w \in Wrappers :
              (markedBy[w] = "update" /\ ~available[w] /\ available'[w])
                => /\ lastEv'.phase = "completed"
                   /\ lastEv'.w = w
                   /\ ContractValue(lastEv'.op, lastEv'.outcome) = "true"
      ]_vars

\* a refresh was suppressed inside the interval of a refresh that failed and
\* marked the wrapper unavailable
C19_Witness ==
    /\ lastEv.op = "update"
    /\ lastEv.phase = "suppressed"
    /\ ~lastEv.no_throttle
    /\ markedBy[lastEv.w] = "update"
    /\ ~available[lastEv.w]
    /\ pending[lastEv.w]["update"] = 0
    /\ now - throttle[lastEv.w] = MIN_TIME_BETWEEN_UPDATES
\* C20: unavailability is recoverable, never sticky.  A refresh or write that
\* completes successfully sets `available` to true from whatever it was; and
\* when time advances, the poll loop keeps calling refresh and update()
\* eventually succeeds, an unavailable wrapper eventually becomes available.
C20_Recoverable ==
    /\ [][ \A w \in Polled : \A op \in {"update", "set"} :
              (DoneStep(op, w) /\ lastEv'.outcome.exc = "none") => available'[w]
         ]_vars
    /\ \A w \in Polled : (~available[w]) ~> available[w]

\* the refresh admitted after the interval of a failed refresh succeeded and
\* made the wrapper available again
C20_Witness ==
    /\ Completed("update", "none")
    /\ lastEv.w \in Polled
    /\ lastEv.before = FALSE
    /\ available[lastEv.w] = TRUE
    /\ Len(updateCalls[lastEv.w]) = 2
    /\ pending[lastEv.w]["set"] = 0
====
